---- MODULE Spec2Model ----
(***************************************************************************)
(* Model of the data-processor-service: startup (main, DataProcessor::new, *)
(* Database::new, RabbitMQConsumer::new), the consumption loop             *)
(* (RabbitMQConsumer::consume_messages), the chunked persistence handler   *)
(* (DataProcessor::process_sensor_data over                                *)
(* Database::insert_batch_sensor_readings) and the confirm-aware publisher *)
(* (RabbitMQProducer::send_sensor_data).                                   *)
(***************************************************************************)
EXTENDS Integers, Sequences, FiniteSets, TLC

\* ---------------------------------------------------------------- bounds
MaxBatch == 3        \* largest configured processing.batch_size explored
MaxReadings == 4     \* readings the consumer stream carries in one run
MaxDeliveries == 2   \* deliveries the consumer stream yields in one run
MaxClock == 2        \* largest wall-clock instant explored
MaxCalls == 2        \* send_sensor_data calls in one run
MaxPairN == 4        \* largest N of the chunk-size comparison

Min(a, b) == IF a < b THEN a ELSE b

\* Option<T>: None is the empty sequence, Some(t) the one-element sequence.
None == << >>
Some(t) == << t >>

VARIABLES
    pc,              \* position of main / the consumption loop
    startup,         \* startup steps executed so far, <<step, ok>>
    batch_size,      \* config.processing.batch_size
    handlerKind,     \* which F consume_messages was given
    now,             \* the wall clock (chrono::Utc::now())
    stats,           \* ProcessingStats behind Arc<Mutex<..>>
    store,           \* rows of sensor_readings (the reading each holds),
                     \* in insertion order
    streamEnded,     \* the consumer stream has yielded None
    lastPoll,        \* outcome of the latest poll
    polls,           \* deliveries taken from the stream, in order
    delivery,        \* the delivery being handled (None between deliveries)
    inputs,          \* sensor_reading_inputs of the running handler
    chunkList,       \* the chunks of inputs that remain to be iterated
    chunk,           \* the chunk under insert_batch_sensor_readings
    chunkResult,     \* result of the latest insert_batch_sensor_readings
    handlerResult,   \* result of the latest handler call
    handlerCalls,    \* ids of the deliveries the handler was invoked for
    dispositions,    \* ack / reject calls issued, in order
    disposeResult,   \* result of the latest ack / reject call
    exitCause,       \* why main returned or aborted
    prodPc,          \* position of a send_sensor_data call
    prodArgs,        \* routing key and number of readings of the call
    prodPayload,     \* the serialized payload of the call
    prodPublishes,   \* basic_publish calls made by the running call
    prodConfirm,     \* the Confirmation the running call received
    sent,            \* finished send_sensor_data calls, in order
    pairPc,          \* position of the chunk-size comparison
    pairN,           \* readings given to both runs
    pairK,           \* chunk size of run B (run A uses pairN)
    pairA,           \* run A: stats, remaining chunks, all chunks Ok so far
    pairB,           \* run B: the same
    pairNow          \* the wall clock of the comparison

consumerVars == << pc, startup, batch_size, handlerKind, now, stats, store,
                   streamEnded, lastPoll, polls, delivery, inputs, chunkList,
                   chunk, chunkResult, handlerResult, handlerCalls,
                   dispositions, disposeResult, exitCause >>

producerVars == << prodPc, prodArgs, prodPayload, prodPublishes, prodConfirm,
                   sent >>

pairVars == << pairPc, pairN, pairK, pairA, pairB, pairNow >>

vars == << consumerVars, producerVars, pairVars >>

\* ------------------------------------------------------- ProcessingStats
ProcessingStatsDefault ==
    [processed_messages |-> 0, failed_messages |-> 0, last_processed_at |-> None]

\* ------------------------------------------------------------- startup
StartupSteps ==
    << "config_load", "pg_connect", "run_migrations", "broker_connect",
       "create_channel", "exchange_declare", "queue_declare", "queue_bind",
       "basic_consume" >>

StepSucceeded(i) ==
    IF i < Len(StartupSteps) THEN StartupSteps[i + 1] ELSE "polling"

\* mutant: the error of a startup call is dropped and startup goes on
StepFailedIgnored(i) == StepSucceeded(i)

\* every startup call is followed by `?`: an error leaves main with Err
StepFailed(i) == "exited_err"

StartupStep(i) ==
    /\ pc = StartupSteps[i]
    /\ \E ok \in BOOLEAN :
          /\ startup' = Append(startup, << StartupSteps[i], ok >>)
          /\ pc' = IF ok THEN StepSucceeded(i) ELSE StepFailed(i)
          /\ exitCause' = IF pc' = "exited_err" THEN StartupSteps[i] ELSE exitCause
    /\ UNCHANGED << producerVars, pairVars, disposeResult, batch_size, handlerKind, now, stats, store, streamEnded,
                    lastPoll, polls, delivery, inputs, chunkList, chunk,
                    chunkResult, handlerResult, handlerCalls, dispositions >>

ConfigLoad == StartupStep(1)
PgConnect == StartupStep(2)
RunMigrations == StartupStep(3)
BrokerConnect == StartupStep(4)
CreateChannel == StartupStep(5)
ExchangeDeclare == StartupStep(6)
QueueDeclare == StartupStep(7)
QueueBind == StartupStep(8)
BasicConsume == StartupStep(9)

\* ---------------------------------------------------- the wall clock
\* chrono::Utc::now(), taken as a clock that is never set back: a reading
\* is the previous one or later
ClockReads(t) == t..Min(t + 1, MaxClock)

\* n successive readings of the clock, the first one not before t
Stamps(n, t) ==
    { s \in [1..n -> t..MaxClock] :
        /\ n > 0 => s[1] \in ClockReads(t)
        /\ \A i \in 1..(n - 1) : s[i + 1] \in ClockReads(s[i]) }

\* ------------------------------------------------- consume_messages
CurrentId == delivery[1].id

RECURSIVE SumN(_)
SumN(ds) == IF ds = << >> THEN 0 ELSE Head(ds).n + SumN(Tail(ds))

\* readings carried by the deliveries taken so far
ReadingsPolled == SumN(polls)

\* BasicRejectOptions::default()
RejectRequeue == FALSE

\* mutant: the elapsed timeout is returned as an error (`timeout(..).await?`)
TimeoutNextReturn == "exited_err"

\* `Err(_) => continue`: the timeout elapsed with no item
TimeoutNext == "polling"

PollTimeout ==
    /\ pc = "polling"
    /\ ~streamEnded
    /\ lastPoll' = "timeout"
    /\ pc' = TimeoutNext
    /\ exitCause' = IF pc' = "exited_err" THEN "poll_timeout" ELSE exitCause
    /\ UNCHANGED << producerVars, pairVars, disposeResult, startup, batch_size, handlerKind, now, stats, store,
                    streamEnded, polls, delivery, inputs, chunkList, chunk,
                    chunkResult, handlerResult, handlerCalls, dispositions >>

PollNone ==
    /\ pc = "polling"
    /\ lastPoll' = "end"
    /\ streamEnded' = TRUE
    /\ UNCHANGED << producerVars, pairVars, disposeResult, pc, startup, batch_size, handlerKind, now, stats, store,
                    polls, delivery, inputs, chunkList, chunk, chunkResult,
                    handlerResult, handlerCalls, dispositions, exitCause >>

\* mutant: an error item of the stream is skipped like a timeout
StreamErrorNextContinue == "polling"

\* `let delivery = delivery?;` on an error item of the stream
StreamErrorNext == "exited_err"

PollStreamError ==
    /\ pc = "polling"
    /\ ~streamEnded
    /\ lastPoll' = "error"
    /\ pc' = StreamErrorNext
    /\ exitCause' = IF pc' = "exited_err" THEN "stream_error" ELSE exitCause
    /\ UNCHANGED << producerVars, pairVars, disposeResult, startup, batch_size, handlerKind, now, stats, store,
                    streamEnded, polls, delivery, inputs, chunkList, chunk,
                    chunkResult, handlerResult, handlerCalls, dispositions >>

PollDelivery ==
    /\ pc = "polling"
    /\ ~streamEnded
    /\ Len(polls) < MaxDeliveries
    /\ \E valid \in BOOLEAN, n \in 0..(MaxReadings - ReadingsPolled) :
          /\ ~valid => n = 0
          /\ LET d == [id |-> Len(polls) + 1, valid |-> valid, n |-> n]
             IN /\ polls' = Append(polls, d)
                /\ delivery' = Some(d)
    /\ lastPoll' = "delivery"
    /\ pc' = "deserialize"
    /\ UNCHANGED << producerVars, pairVars, disposeResult, startup, batch_size, handlerKind, now, stats, store,
                    streamEnded, inputs, chunkList, chunk, chunkResult,
                    handlerResult, handlerCalls, dispositions, exitCause >>

\* mutant: a body that does not deserialize is acknowledged like any other
DeserializeNextAck(valid) == IF valid THEN "handler" ELSE "ack"

\* serde_json::from_slice::<Vec<SensorData>>(&delivery.data)
DeserializeNext(valid) == IF valid THEN "handler" ELSE "reject"

Deserialize ==
    /\ pc = "deserialize"
    /\ pc' = DeserializeNext(delivery[1].valid)
    /\ UNCHANGED << producerVars, pairVars, disposeResult, startup, batch_size, handlerKind, now, stats, store,
                    streamEnded, lastPoll, polls, delivery, inputs, chunkList,
                    chunk, chunkResult, handlerResult, handlerCalls,
                    dispositions, exitCause >>

\* mutant: the Err arm of the handler call skips the ack
AfterHandlerSkipAck(result) == IF result = "Err" THEN "polling" ELSE "ack"

\* mutant: a handler error rejects the delivery
AfterHandlerReject(result) == IF result = "Err" THEN "reject" ELSE "ack"

\* `if let Err(e) = handler(..).await { error!(..) }` and then the ack
AfterHandler(result) == "ack"

\* a handler other than DataProcessor's closure: any FnMut returning Result
OtherHandler ==
    /\ pc = "handler"
    /\ handlerKind = "other"
    /\ handlerCalls' = handlerCalls \cup {CurrentId}
    /\ \E r \in {"Ok", "Err"} :
          /\ handlerResult' = r
          /\ pc' = AfterHandler(r)
    /\ UNCHANGED << producerVars, pairVars, disposeResult, startup, batch_size, handlerKind, now, stats, store,
                    streamEnded, lastPoll, polls, delivery, inputs, chunkList,
                    chunk, chunkResult, dispositions, exitCause >>

\* mutant: a failed ack / reject call is followed by a reject
DisposeNextFallback(r) == IF r = "Err" THEN "reject" ELSE "polling"

\* mutant: a failed ack / reject call is tried again as an ack
DisposeNextRetry(r) == IF r = "Err" THEN "ack" ELSE "polling"

\* mutant: the ack / reject call is followed by `?`
DisposeNextPropagate(r) == IF r = "Err" THEN "exited_err" ELSE "polling"

\* `if let Err(e) = delivery.ack(..).await { error!(..) }`, same for reject
DisposeNext(r) == "polling"

Dispose(op, requeue) ==
    \E r \in {"Ok", "Err"} :
       /\ dispositions' = Append(dispositions,
              [id |-> CurrentId, op |-> op, requeue |-> requeue])
       /\ disposeResult' = r
       /\ pc' = DisposeNext(r)
       /\ delivery' = IF pc' \in {"ack", "reject"} THEN delivery ELSE None
       /\ exitCause' = IF pc' = "exited_err" THEN "dispose_error" ELSE exitCause

Ack ==
    /\ pc = "ack"
    /\ Dispose("ack", FALSE)
    /\ UNCHANGED << producerVars, pairVars, startup, batch_size, handlerKind,
                    now, stats, store, streamEnded, lastPoll, polls, inputs,
                    chunkList, chunk, chunkResult, handlerResult,
                    handlerCalls >>

Reject ==
    /\ pc = "reject"
    /\ Dispose("reject", RejectRequeue)
    /\ UNCHANGED << producerVars, pairVars, startup, batch_size, handlerKind,
                    now, stats, store, streamEnded, lastPoll, polls, inputs,
                    chunkList, chunk, chunkResult, handlerResult,
                    handlerCalls >>

\* ---------------------------------------------- process_sensor_data
\* mutant: slice::chunks_exact(k), which leaves the remainder out
RECURSIVE ChunksExact(_, _)
ChunksExact(s, k) ==
    IF Len(s) < k THEN << >>
    ELSE << SubSeq(s, 1, k) >> \o ChunksExact(SubSeq(s, k + 1, Len(s)), k)

\* mutant: slice::rchunks(k), which cuts the chunks from the end
RECURSIVE ChunksR(_, _)
ChunksR(s, k) ==
    IF s = << >> THEN << >>
    ELSE LET m == Min(k, Len(s))
         IN << SubSeq(s, Len(s) - m + 1, Len(s)) >>
                \o ChunksR(SubSeq(s, 1, Len(s) - m), k)

\* slice::chunks(k) for k > 0
RECURSIVE Chunks(_, _)
Chunks(s, k) ==
    IF s = << >> THEN << >>
    ELSE LET m == Min(k, Len(s))
         IN << SubSeq(s, 1, m) >> \o Chunks(SubSeq(s, m + 1, Len(s)), k)

Normalize ==
    /\ pc = "handler"
    /\ handlerKind = "process_sensor_data"
    /\ handlerCalls' = handlerCalls \cup {CurrentId}
    /\ LET n == delivery[1].n
       IN \E s \in Stamps(n, now) :
             /\ inputs' = [i \in 1..n |->
                             [reading |-> << CurrentId, i >>, timestamp |-> s[i]]]
             /\ now' = IF n > 0 THEN s[n] ELSE now
    /\ pc' = "chunks"
    /\ UNCHANGED << producerVars, pairVars, disposeResult, startup, batch_size, handlerKind, stats, store,
                    streamEnded, lastPoll, polls, delivery, chunkList, chunk,
                    chunkResult, handlerResult, dispositions, exitCause >>

\* sensor_reading_inputs.chunks(batch_size): panics when batch_size is 0
ChunksCall ==
    /\ pc = "chunks"
    /\ IF batch_size = 0
       THEN /\ pc' = "panicked"
            /\ exitCause' = "chunk_size_zero"
            /\ UNCHANGED chunkList
       ELSE /\ pc' = "for_chunk"
            /\ chunkList' = Chunks(inputs, batch_size)
            /\ UNCHANGED exitCause
    /\ UNCHANGED << producerVars, pairVars, disposeResult, startup, batch_size, handlerKind, now, stats, store,
                    streamEnded, lastPoll, polls, delivery, inputs, chunk,
                    chunkResult, handlerResult, handlerCalls, dispositions >>

\* mutant: the batch is inserted from its last reading to its first
RowsReversed(c, inserted) ==
    [i \in 1..inserted |-> c[Len(c) + 1 - i].reading]

\* `for data in data_batch`: the rows of the first `inserted` readings of c
Rows(c, inserted) == [i \in 1..inserted |-> c[i].reading]

\* Database::insert_batch_sensor_readings: one INSERT per reading, in order,
\* the first failing INSERT returns the error; inserted rows stay inserted
InsertBatch ==
    /\ pc = "for_chunk"
    /\ chunkList # << >>
    /\ chunk' = Head(chunkList)
    /\ chunkList' = Tail(chunkList)
    /\ \E inserted \in 0..Len(chunk') :
          /\ store' = store \o Rows(chunk', inserted)
          /\ chunkResult' = IF inserted = Len(chunk') THEN "Ok" ELSE "Err"
    /\ pc' = "record"
    /\ UNCHANGED << producerVars, pairVars, disposeResult, startup, batch_size, handlerKind, now, stats,
                    streamEnded, lastPoll, polls, delivery, inputs,
                    handlerResult, handlerCalls, dispositions, exitCause >>

\* mutant: a successful chunk is counted as a full batch
OnInsertOkBatch(st, c, t) ==
    [st EXCEPT !.processed_messages = @ + batch_size,
               !.last_processed_at = Some(t)]

OnInsertOk(st, c, t) ==
    [st EXCEPT !.processed_messages = @ + Len(c),
               !.last_processed_at = Some(t)]

\* mutant: a failed chunk overwrites the failure counter
OnInsertErrAssign(st, c) ==
    [st EXCEPT !.failed_messages = Len(c)]

\* mutant: a failed chunk also stamps last_processed_at
OnInsertErrStamp(st, c) ==
    [st EXCEPT !.failed_messages = @ + Len(c),
               !.last_processed_at = Some(now)]

\* mutant: a failed chunk is counted as one failure
OnInsertErrOne(st, c) ==
    [st EXCEPT !.failed_messages = @ + 1]

\* mutant: a failed chunk is counted as failed and as processed
OnInsertErrBoth(st, c) ==
    [st EXCEPT !.failed_messages = @ + Len(c),
               !.processed_messages = @ + Len(c)]

OnInsertErr(st, c) ==
    [st EXCEPT !.failed_messages = @ + Len(c)]

\* mutant: the chunk loop is left at the first failed chunk
RemainingAfterBreak(result, rest) == IF result = "Err" THEN << >> ELSE rest

\* the chunks the `for` loop goes on with once a chunk's result is recorded
RemainingAfter(result, rest) == rest

RecordOutcome ==
    /\ pc = "record"
    /\ chunkList' = RemainingAfter(chunkResult, chunkList)
    /\ IF chunkResult = "Ok"
       THEN \E t \in ClockReads(now) :
               /\ now' = t
               /\ stats' = OnInsertOk(stats, chunk, t)
       ELSE /\ stats' = OnInsertErr(stats, chunk)
            /\ UNCHANGED now
    /\ pc' = "for_chunk"
    /\ UNCHANGED << producerVars, pairVars, disposeResult, startup, batch_size, handlerKind, store, streamEnded,
                    lastPoll, polls, delivery, inputs, chunk,
                    chunkResult, handlerResult, handlerCalls, dispositions,
                    exitCause >>

\* the value process_sensor_data returns after the chunk loop
ProcessResult == "Ok"

Finish ==
    /\ pc = "for_chunk"
    /\ chunkList = << >>
    /\ handlerResult' = ProcessResult
    /\ pc' = AfterHandler(handlerResult')
    /\ inputs' = << >>
    /\ chunk' = << >>
    /\ chunkResult' = "none"
    /\ UNCHANGED << producerVars, pairVars, disposeResult, startup, batch_size, handlerKind, now, stats, store,
                    streamEnded, lastPoll, polls, delivery, chunkList,
                    handlerCalls, dispositions, exitCause >>

\* ------------------------------------------- send_sensor_data
RoutingKeys == {"meter.data", "meter.other"}

Confirmations == {"Ack", "Nack", "NotRequested"}

\* serde_json::to_vec(sensor_data): a JSON array with one object per reading
\* (two strings and a serde_json::Value each, written to a Vec: no error case)
ToVec(n) == [array |-> n]

SendCall ==
    /\ prodPc = "idle"
    /\ Len(sent) < MaxCalls
    /\ \E key \in RoutingKeys, n \in 0..1 :
          /\ prodArgs' = [routing_key |-> key, readings |-> n]
          /\ prodPayload' = ToVec(n)
    /\ prodPublishes' = 0
    /\ prodConfirm' = "none"
    /\ prodPc' = "basic_publish"
    /\ UNCHANGED << consumerVars, pairVars, sent >>

Return(result) ==
    /\ sent' = Append(sent, [args |-> prodArgs, publishes |-> prodPublishes',
                             confirm |-> prodConfirm', result |-> result])
    /\ prodPc' = "idle"

\* self.channel.basic_publish(..).await? : the publish itself may fail
BasicPublish ==
    /\ prodPc = "basic_publish"
    /\ prodPublishes' = prodPublishes + 1
    /\ \/ /\ prodPc' = "confirm"
          /\ UNCHANGED << prodConfirm, sent >>
       \/ /\ UNCHANGED prodConfirm
          /\ Return("Err_publish")
    /\ UNCHANGED << consumerVars, pairVars, prodArgs, prodPayload >>

\* .await? on the PublisherConfirm: it may fail, or give a Confirmation
AwaitConfirm ==
    /\ prodPc = "confirm"
    /\ UNCHANGED << consumerVars, pairVars, prodArgs, prodPayload,
                    prodPublishes >>
    /\ \/ /\ \E c \in Confirmations : prodConfirm' = c
          /\ prodPc' = "match"
          /\ UNCHANGED sent
       \/ /\ UNCHANGED prodConfirm
          /\ Return("Err_confirm")

\* mutant: only an Ack counts as success
ConfirmResultStrict(c) == IF c = "Ack" THEN "Ok" ELSE "Err_not_acknowledged"

\* match confirm { Ack(_) => Ok(()), Nack(_) => Err(..), NotRequested => Ok(()) }
ConfirmResult(c) ==
    CASE c = "Ack" -> "Ok"
      [] c = "Nack" -> "Err_not_acknowledged"
      [] c = "NotRequested" -> "Ok"

MatchConfirm ==
    /\ prodPc = "match"
    /\ UNCHANGED << consumerVars, pairVars, prodArgs, prodPayload,
                    prodPublishes, prodConfirm >>
    /\ Return(ConfirmResult(prodConfirm))

ProducerNext ==
    \/ SendCall
    \/ BasicPublish
    \/ AwaitConfirm
    \/ MatchConfirm

\* ------------------- two runs of the chunk loop over the same readings
PairInputs(n) ==
    [i \in 1..n |-> [reading |-> << 0, i >>, timestamp |-> 0]]

PairRun(n, k) ==
    [stats |-> ProcessingStatsDefault,
     chunkList |-> Chunks(PairInputs(n), k),
     allOk |-> TRUE]

PairStart ==
    /\ pairPc = "idle"
    /\ \E n \in 1..MaxPairN, k \in 1..MaxPairN :
          /\ pairN' = n
          /\ pairK' = k
          /\ pairA' = PairRun(n, n)
          /\ pairB' = PairRun(n, k)
    /\ pairPc' = "running"
    /\ UNCHANGED << consumerVars, producerVars, pairNow >>

\* one iteration of the chunk loop: insert_batch_sensor_readings, then stats
PairChunk(run, ok, t) ==
    [stats |-> IF ok THEN OnInsertOk(run.stats, Head(run.chunkList), t)
                     ELSE OnInsertErr(run.stats, Head(run.chunkList)),
     chunkList |-> Tail(run.chunkList),
     allOk |-> run.allOk /\ ok]

PairChunkA ==
    /\ pairPc = "running"
    /\ pairA.chunkList # << >>
    /\ \E ok \in BOOLEAN, t \in ClockReads(pairNow) :
          /\ pairA' = PairChunk(pairA, ok, t)
          /\ pairNow' = IF ok THEN t ELSE pairNow
    /\ UNCHANGED << consumerVars, producerVars, pairPc, pairN, pairK, pairB >>

PairChunkB ==
    /\ pairPc = "running"
    /\ pairB.chunkList # << >>
    /\ \E ok \in BOOLEAN, t \in ClockReads(pairNow) :
          /\ pairB' = PairChunk(pairB, ok, t)
          /\ pairNow' = IF ok THEN t ELSE pairNow
    /\ UNCHANGED << consumerVars, producerVars, pairPc, pairN, pairK, pairA >>

PairNext ==
    \/ PairStart
    \/ PairChunkA
    \/ PairChunkB

Init ==
    /\ pc = StartupSteps[1]
    /\ startup = << >>
    /\ batch_size \in 0..MaxBatch
    /\ handlerKind \in {"process_sensor_data", "other"}
    /\ now = 0
    /\ stats = ProcessingStatsDefault
    /\ store = << >>
    /\ streamEnded = FALSE
    /\ lastPoll = "none"
    /\ polls = << >>
    /\ delivery = None
    /\ inputs = << >>
    /\ chunkList = << >>
    /\ chunk = << >>
    /\ chunkResult = "none"
    /\ handlerResult = "none"
    /\ handlerCalls = {}
    /\ dispositions = << >>
    /\ disposeResult = "none"
    /\ exitCause = "none"
    /\ prodPc = "idle"
    /\ prodArgs = [routing_key |-> "none", readings |-> 0]
    /\ prodPayload = ToVec(0)
    /\ prodPublishes = 0
    /\ prodConfirm = "none"
    /\ sent = << >>
    /\ pairPc = "idle"
    /\ pairN = 0
    /\ pairK = 0
    /\ pairA = PairRun(0, 1)
    /\ pairB = PairRun(0, 1)
    /\ pairNow = 0

Next ==
    \/ ConfigLoad
    \/ PgConnect
    \/ RunMigrations
    \/ BrokerConnect
    \/ CreateChannel
    \/ ExchangeDeclare
    \/ QueueDeclare
    \/ QueueBind
    \/ BasicConsume
    \/ PollTimeout
    \/ PollNone
    \/ PollStreamError
    \/ PollDelivery
    \/ Deserialize
    \/ OtherHandler
    \/ Normalize
    \/ ChunksCall
    \/ InsertBatch
    \/ RecordOutcome
    \/ Finish
    \/ Ack
    \/ Reject

Spec == Init /\ [][Next]_vars

\* the publisher on its own
ProducerSpec == Init /\ [][ProducerNext]_vars

\* the chunk-size comparison on its own
PairSpec == Init /\ [][PairNext]_vars

\* ================================================================ claims
LoopPcs == { "polling", "deserialize", "handler", "chunks", "for_chunk",
             "record", "ack", "reject" }

HandlerPcs == { "handler", "chunks", "for_chunk", "record" }

IsValid(d) == d.valid

\* readings of the deliveries taken so far whose body deserialized
DeserializedReadings == SumN(SelectSeq(polls, IsValid))

\* the ack / reject calls issued for delivery id
DispositionsOf(id) == SelectSeq(dispositions, LAMBDA x : x.id = id)

\* delivery id has left the loop iteration that handled it
Finished(id) == id <= Len(polls) /\ (delivery = None \/ CurrentId # id)

\* C1: with chunk size >= 1, whenever the loop is back at Polling with every
\* delivery taken so far fully handled by process_sensor_data,
\* processed_messages + failed_messages equals the number of readings in the
\* deliveries that deserialized.
C1_CountersSumToReadings ==
    (pc = "polling" /\ handlerKind = "process_sensor_data" /\ batch_size >= 1)
        => stats.processed_messages + stats.failed_messages
               = DeserializedReadings

C1_Witness ==
    /\ pc = "polling"
    /\ handlerKind = "process_sensor_data"
    /\ Len(polls) = 2
    /\ polls[1].n >= 2 /\ polls[2].n >= 1
    /\ stats.processed_messages > 0
    /\ stats.failed_messages > 1
    /\ Len(dispositions) = 2

\* C2: the step that records a failed insert_batch adds exactly the chunk's
\* length to failed_messages and leaves processed_messages and
\* last_processed_at as they were.
C2_FailedChunkFrame ==
    [][ (pc = "record" /\ chunkResult = "Err")
          => /\ stats'.failed_messages = stats.failed_messages + Len(chunk)
             /\ stats'.processed_messages = stats.processed_messages
             /\ stats'.last_processed_at = stats.last_processed_at ]_vars

C2_Witness ==
    /\ pc = "for_chunk"
    /\ chunkResult = "Err"
    /\ Len(chunk) >= 2
    /\ stats.failed_messages = Len(chunk)
    /\ stats.processed_messages > 0
    /\ stats.last_processed_at # None

C4_BadBodyState ==
    \A i \in 1..Len(polls) :
        ~polls[i].valid =>
            /\ i \notin handlerCalls
            /\ \A k \in 1..Len(dispositions) :
                  dispositions[k].id = i =>
                      /\ dispositions[k].op = "reject"
                      /\ dispositions[k].requeue = FALSE
            /\ Finished(i) => Len(DispositionsOf(i)) = 1
            /\ (~Finished(i)) => Len(DispositionsOf(i)) = 0

C4_BadBodyRejected ==
    /\ []C4_BadBodyState
    /\ [][ (delivery # None /\ ~delivery[1].valid)
             => (stats' = stats /\ store' = store) ]_vars

C4_Witness ==
    /\ pc = "polling"
    /\ Len(polls) = 2
    /\ polls[1].valid /\ ~polls[2].valid
    /\ Len(dispositions) = 2
    /\ dispositions[2] = [id |-> 2, op |-> "reject", requeue |-> FALSE]
    /\ stats.processed_messages > 0
    /\ store # << >>

\* C5: a delivery whose body deserializes is never rejected; no ack is issued
\* for it while its handler is running; once the loop has left it, it has
\* been acked exactly once, whatever the chunks' outcomes were.
C5_DeserializedAcked ==
    \A i \in 1..Len(polls) :
        polls[i].valid =>
            /\ \A k \in 1..Len(dispositions) :
                  dispositions[k].id = i => dispositions[k].op = "ack"
            /\ Finished(i) =>
                  /\ Len(DispositionsOf(i)) = 1
                  /\ i \in handlerCalls
            /\ (~Finished(i)) => Len(DispositionsOf(i)) = 0
            /\ (~Finished(i) /\ pc = "ack") =>
                  /\ i \in handlerCalls
                  /\ handlerResult \in {"Ok", "Err"}
                  /\ chunkList = << >>

C5_Witness ==
    /\ pc = "polling"
    /\ handlerKind = "process_sensor_data"
    /\ Len(polls) = 1
    /\ polls[1].valid /\ polls[1].n >= 2
    /\ dispositions = << [id |-> 1, op |-> "ack", requeue |-> FALSE] >>
    /\ stats.processed_messages = 0
    /\ stats.failed_messages = polls[1].n

\* C6: when the handler returns an error the loop goes on to the ack, the ack
\* is issued for that delivery, and the loop is back at Polling.
C6_HandlerErrorAcked ==
    /\ [][ (pc \in HandlerPcs /\ pc' \notin HandlerPcs
               /\ handlerResult' = "Err") => pc' = "ack" ]_vars
    /\ [][ pc = "ack"
             => /\ pc' = "polling"
                /\ dispositions' = Append(dispositions,
                       [id |-> CurrentId, op |-> "ack", requeue |-> FALSE]) ]_vars
    /\ [](pc = "reject" => ~delivery[1].valid)

C6_Witness ==
    /\ handlerResult = "Err"
    /\ pc = "deserialize"
    /\ Len(polls) = 2
    /\ dispositions = << [id |-> 1, op |-> "ack", requeue |-> FALSE] >>

\* C7: every finished send_sensor_data call made exactly one basic_publish;
\* a call that received a Confirmation returned success for Ack, an error for
\* Nack and success for NotRequested.
C7_ConfirmMapping ==
    \A i \in 1..Len(sent) :
        /\ sent[i].publishes = 1
        /\ sent[i].confirm = "Ack" => sent[i].result = "Ok"
        /\ sent[i].confirm = "Nack" => sent[i].result = "Err_not_acknowledged"
        /\ sent[i].confirm = "NotRequested" => sent[i].result = "Ok"

C7_Witness ==
    /\ Len(sent) = 2
    /\ sent[1].confirm = "Nack"
    /\ sent[1].result = "Err_not_acknowledged"
    /\ sent[2].confirm = "NotRequested"
    /\ sent[2].result = "Ok"
    /\ prodPc = "idle"

\* C8: when both runs have iterated all their chunks and every chunk
\* succeeded, the run with chunk size N and the run with chunk size k have the
\* same processed_messages and failed_messages, and both have
\* last_processed_at present; the run with chunk size k made ceil(N/k) chunks.
PairDone == pairPc = "running" /\ pairA.chunkList = << >> /\ pairB.chunkList = << >>

C8_ChunkSizeIrrelevant ==
    /\ (PairDone /\ pairA.allOk /\ pairB.allOk) =>
          /\ pairA.stats.processed_messages = pairB.stats.processed_messages
          /\ pairA.stats.failed_messages = pairB.stats.failed_messages
          /\ pairA.stats.last_processed_at # None
          /\ pairB.stats.last_processed_at # None
    /\ (pairPc = "running" /\ pairB.stats = ProcessingStatsDefault) =>
          Len(pairB.chunkList) = (pairN + pairK - 1) \div pairK

C8_Witness ==
    /\ PairDone
    /\ pairA.allOk /\ pairB.allOk
    /\ pairN = 3
    /\ pairK = 2
    /\ pairB.stats.processed_messages = 3

\* C9 as stated: once the loop runs, nothing that happens to a delivery,
\* an error item of the consumer stream included, makes main return an
\* error: main only returns an error for a failed startup step.
C9_NoDeliveryErrorExits ==
    pc = "exited_err" => (\E i \in 1..Len(StartupSteps) : exitCause = StartupSteps[i])

\* a step on which a per-delivery error other than a stream error item occurs
DeliveryErrorStep ==
    \/ pc = "deserialize" /\ ~delivery[1].valid
    \/ pc \in HandlerPcs /\ pc' \notin HandlerPcs /\ handlerResult' = "Err"
    \/ pc = "for_chunk" /\ pc' = "record" /\ chunkResult' = "Err"
    \/ pc \in {"ack", "reject"} /\ disposeResult' = "Err"

\* the step on which an error item of the stream leaves consume_messages
StreamErrorExit ==
    /\ pc = "polling"
    /\ lastPoll' = "error"
    /\ exitCause' = "stream_error"

\* C9 (amended): a deserialization failure, a handler error, a store failure
\* and a failed ack or reject keep consume_messages running: a bad body goes
\* to its reject, a recorded chunk back to the chunk loop, the chunk loop
\* through its remaining chunks to the ack, and every ack or reject call,
\* failed or not, to Polling; consume_messages returns an error only for an
\* error item of the consumer stream, which start and main return.
C9_ErrorsContained ==
    /\ [][ DeliveryErrorStep => pc' \in LoopPcs ]_vars
    /\ [][ (pc \in {"ack", "reject"}) => pc' = "polling" ]_vars
    /\ [][ (pc = "deserialize" /\ ~delivery[1].valid) => pc' = "reject" ]_vars
    /\ [][ pc = "record" => pc' = "for_chunk" ]_vars
    /\ [][ pc = "for_chunk" =>
             \/ pc' = "record" /\ Len(chunkList') < Len(chunkList)
             \/ pc' = "ack" /\ chunkList = << >> ]_vars
    /\ [][ (pc \in LoopPcs /\ pc' = "exited_err") => StreamErrorExit ]_vars

C9_Witness ==
    /\ pc = "polling"
    /\ Len(polls) = 2
    /\ ~polls[1].valid
    /\ polls[2].valid
    /\ Len(dispositions) = 2
    /\ disposeResult = "Err"
    /\ stats.failed_messages > 0
    /\ lastPoll = "timeout"

\* the loop has been entered
LoopEntered ==
    \/ pc \in LoopPcs \cup {"panicked"}
    \/ lastPoll # "none"
    \/ polls # << >>
    \/ dispositions # << >>
    \/ handlerCalls # {}

\* C10: the startup steps run in their fixed order; a failed step is the
\* last one executed and leaves main with an error; the loop is entered, and
\* a delivery polled, acked or rejected, only after all of them succeeded.
C10_LoopOnlyAfterStartup ==
    /\ Len(startup) <= Len(StartupSteps)
    /\ \A i \in 1..Len(startup) :
          /\ startup[i][1] = StartupSteps[i]
          /\ ~startup[i][2] =>
                /\ i = Len(startup)
                /\ pc = "exited_err"
                /\ exitCause = StartupSteps[i]
                /\ ~LoopEntered
    /\ LoopEntered =>
          /\ Len(startup) = Len(StartupSteps)
          /\ \A i \in 1..Len(startup) : startup[i][2]

C10_Witness ==
    /\ pc = "exited_err"
    /\ Len(startup) = 5
    /\ startup[5] = << "create_channel", FALSE >>
    /\ polls = << >>

\* one step keeps what the statistics have accumulated
StatsKept ==
    /\ stats'.processed_messages >= stats.processed_messages
    /\ stats'.failed_messages >= stats.failed_messages
    /\ stats.last_processed_at # None => stats'.last_processed_at # None

\* C11: the statistics start at 0 processed, 0 failed and no
\* last_processed_at, and stay so until the handler records its first chunk;
\* across every step processed_messages and failed_messages never decrease
\* and last_processed_at, once present, never becomes absent.
C11_StatsStartZeroAndGrow ==
    /\ stats = ProcessingStatsDefault
    /\ [](handlerCalls = {} => stats = ProcessingStatsDefault)
    /\ [][StatsKept]_vars

C11_Witness ==
    /\ pc = "record"
    /\ Len(polls) = 2
    /\ chunkResult = "Err"
    /\ stats.processed_messages = 2
    /\ stats.failed_messages = 1
    /\ stats.last_processed_at # None

\* the total length of a sequence of chunks
RECURSIVE FlatLen(_)
FlatLen(cs) == IF cs = << >> THEN 0 ELSE Len(Head(cs)) + FlatLen(Tail(cs))

\* readings of the current delivery already handed to insert_batch
Submitted == Len(inputs) - FlatLen(chunkList)

\* readings counted before the current delivery's handler started
CountedBefore == DeserializedReadings - delivery[1].n

\* an insert_batch call starts in this step
InsertStarts == pc = "for_chunk" /\ pc' = "record"

\* the rows of delivery id, in the order the store received them
RowsOf(id) == SelectSeq(store, LAMBDA r : r[1] = id)

\* C12: within one delivery the chunks go to the store in payload order, one
\* at a time: an insert_batch call starts only when every chunk before it
\* has returned and been recorded in the statistics, it carries the next
\* contiguous readings of the payload in payload order, and the store
\* receives the rows of a delivery in payload order.
C12_ChunksInOrderOneAtATime ==
    /\ [][InsertStarts =>
            /\ stats.processed_messages + stats.failed_messages
                  = CountedBefore + Submitted
            /\ chunk' = SubSeq(inputs, Submitted + 1, Submitted + Len(chunk'))
            /\ \A j \in 1..Len(chunk') :
                  chunk'[j].reading = << CurrentId, Submitted + j >>
            /\ chunkList' = Tail(chunkList)]_vars
    /\ [](\A id \in 1..Len(polls) :
            \A a, b \in 1..Len(RowsOf(id)) :
               a < b => RowsOf(id)[a][2] < RowsOf(id)[b][2])

C12_Witness ==
    /\ pc = "record"
    /\ batch_size = 2
    /\ Len(inputs) = 4
    /\ chunk = SubSeq(inputs, 3, 4)
    /\ store = << << 1, 1 >>, << 1, 2 >>, << 1, 3 >>, << 1, 4 >> >>

\* the loop takes an item from the consumer stream in this step
TakesDelivery == polls' # polls

\* every delivery taken so far has been fully handled
AllHandled ==
    \A i \in 1..Len(polls) :
       /\ Len(DispositionsOf(i)) = 1
       /\ polls[i].valid => i \in handlerCalls

\* C13: the loop handles one delivery at a time: it takes the next delivery
\* only from Polling, with no handler running, after every earlier delivery
\* has had its handler completed (when its body deserialized) and exactly
\* one ack or reject attempted; no delivery ever gets two dispositions.
C13_OneDeliveryAtATime ==
    /\ [][TakesDelivery =>
            /\ pc = "polling"
            /\ inputs = << >> /\ chunkList = << >>
            /\ AllHandled
            /\ Len(dispositions) = Len(polls)]_vars
    /\ [](\A i \in 1..Len(polls) : Len(DispositionsOf(i)) <= 1)
    /\ [](pc \in LoopPcs \ {"polling"} =>
            /\ delivery # None
            /\ CurrentId = Len(polls)
            /\ DispositionsOf(CurrentId) = << >>)

C13_Witness ==
    /\ pc = "handler"
    /\ Len(polls) = 2
    /\ delivery # None
    /\ DispositionsOf(1) = << [id |-> 1, op |-> "reject", requeue |-> FALSE] >>
    /\ DispositionsOf(2) = << >>

\* the poll of this step ends with the timeout elapsed and no item
TimesOut == pc = "polling" /\ lastPoll' = "timeout"

\* C14: when no delivery arrives within the poll timeout the loop is back at
\* Polling without error: consume_messages does not return, no ack or reject
\* is issued, no handler is invoked and the statistics and the store are
\* unchanged; and a poll never blocks for good: while the stream has not
\* ended, a poll with no delivery can always end by its timeout.
C14_TimeoutReturnsToPolling ==
    /\ [][TimesOut =>
            /\ pc' = "polling"
            /\ exitCause' = exitCause
            /\ dispositions' = dispositions
            /\ handlerCalls' = handlerCalls
            /\ polls' = polls
            /\ stats' = stats
            /\ store' = store]_vars
    /\ []((pc = "polling" /\ ~streamEnded) => ENABLED PollTimeout)

C14_Witness ==
    /\ pc = "polling"
    /\ lastPoll = "timeout"
    /\ Len(polls) = 1
    /\ Len(dispositions) = 1
    /\ stats.processed_messages = 2

\* s is a prefix of t
IsPrefix(s, t) == Len(s) <= Len(t) /\ SubSeq(t, 1, Len(s)) = s

\* the failure of the chunk just submitted is recorded in this step
RecordsFailure == pc = "record" /\ chunkResult = "Err"

\* C15: a failing chunk neither blocks nor rolls back the other chunks of its
\* delivery: recording the failure removes no row and lowers no
\* processed_messages, every chunk still waiting is kept and is the next one
\* submitted, and the handler returns only when no chunk is left.  No step
\* ever removes a row from the store.
C15_FailedChunkIsolated ==
    /\ [][RecordsFailure =>
            /\ pc' = "for_chunk"
            /\ chunkList' = chunkList
            /\ store' = store
            /\ stats'.processed_messages = stats.processed_messages]_vars
    /\ [][(pc = "for_chunk" /\ chunkList # << >>) =>
            /\ pc' = "record"
            /\ chunk' = Head(chunkList)]_vars
    /\ [][(pc = "for_chunk" /\ pc' \in {"ack", "reject", "polling"}) =>
            chunkList = << >> /\ Submitted = Len(inputs)]_vars
    /\ [][IsPrefix(store, store')]_vars

C15_Witness ==
    /\ pc = "ack"
    /\ batch_size = 1
    /\ polls = << [id |-> 1, valid |-> TRUE, n |-> 3] >>
    /\ store = << << 1, 1 >>, << 1, 3 >> >>
    /\ stats.processed_messages = 2
    /\ stats.failed_messages = 1

\* the ack or reject call of this step fails
DispositionFails == (pc \in {"ack", "reject"}) /\ disposeResult' = "Err"

\* the ack / reject calls issued for delivery id once the step is taken
DispositionsAfter(id) == SelectSeq(dispositions', LAMBDA x : x.id = id)

\* C16: a failed ack or reject call is swallowed: consume_messages does not
\* return, the loop is back at Polling with the delivery dropped, the call
\* is not repeated (the delivery keeps that one attempt for good), and the
\* statistics and the store are unchanged.
C16_DispositionFailureSwallowed ==
    /\ [][DispositionFails =>
            /\ pc' = "polling"
            /\ delivery' = None
            /\ exitCause' = exitCause
            /\ stats' = stats
            /\ store' = store
            /\ Len(DispositionsAfter(CurrentId)) = 1]_vars
    /\ [][\A i \in 1..Len(polls) :
            Len(DispositionsOf(i)) = 1 =>
               DispositionsAfter(i) = DispositionsOf(i)]_vars

C16_Witness ==
    /\ pc = "deserialize"
    /\ disposeResult = "Err"
    /\ Len(polls) = 2
    /\ Len(dispositions) = 1
    /\ dispositions[1].op = "ack"

\* the poll of this step finds the consumer stream failed or ended
StreamFailsOrEnds == pc = "polling" /\ lastPoll' \in {"error", "end"}

\* C17: the loop is entered at Polling and, while the consumer stream is
\* alive, consume_messages is left by no step; when the stream fails or ends
\* (an error item, or no more items) consume_messages terminates instead of
\* polling on.
C17_TerminatesWhenStreamFailsOrEnds ==
    /\ [][(pc \notin LoopPcs /\ pc' \in LoopPcs) => pc' = "polling"]_vars
    /\ [][(pc \in LoopPcs /\ pc' \in {"exited_err", "exited_ok"}) =>
            StreamFailsOrEnds]_vars
    /\ [][StreamFailsOrEnds => pc' \notin LoopPcs]_vars

\* the concatenation of a sequence of chunks
RECURSIVE Concat(_)
Concat(cs) == IF cs = << >> THEN << >> ELSE Head(cs) \o Concat(Tail(cs))

\* ceil(n / k) for k >= 1
CeilDiv(n, k) == (n + k - 1) \div k

\* cs is the chunking of s by size k the specification describes
IsChunking(cs, s, k) ==
    LET N == Len(s)
        m == CeilDiv(N, k)
    IN /\ Len(cs) = m
       /\ Concat(cs) = s
       /\ \A i \in 1..Len(cs) :
             /\ cs[i] # << >>
             /\ i < m => Len(cs[i]) = k
             /\ i = m => Len(cs[i]) = N - k * (m - 1)

\* the handler of the current delivery was given no reading
EmptyDelivery ==
    /\ handlerKind = "process_sensor_data"
    /\ pc \in HandlerPcs
    /\ delivery[1].n = 0

\* C18: for N >= 0 normalized readings and chunk size k >= 1 the handler
\* cuts exactly ceil(N / k) non-empty contiguous chunks whose concatenation
\* is the normalized sequence in order, all of length k but the last, which
\* has N - k * (ceil(N / k) - 1); an empty sequence gives zero chunks, no
\* store call and unchanged statistics, and the delivery goes on to its ack.
C18_ChunkCountAndSizes ==
    /\ [][(pc = "chunks" /\ batch_size >= 1) =>
            /\ pc' = "for_chunk"
            /\ IsChunking(chunkList', inputs, batch_size)]_vars
    /\ [][(EmptyDelivery /\ batch_size >= 1) =>
            /\ stats' = stats
            /\ store' = store
            /\ chunkList' = << >>
            /\ pc' \in {"chunks", "for_chunk", "ack"}]_vars

C18_Witness ==
    /\ pc = "for_chunk"
    /\ batch_size = 2
    /\ Len(inputs) = 3
    /\ Len(chunkList) = 2
    /\ Len(chunkList[1]) = 2
    /\ Len(chunkList[2]) = 1

\* an empty delivery is acked with nothing stored or counted
C18_EmptyAcked ==
    /\ pc = "polling"
    /\ polls = << [id |-> 1, valid |-> TRUE, n |-> 0] >>
    /\ handlerKind = "process_sensor_data"
    /\ dispositions = << [id |-> 1, op |-> "ack", requeue |-> FALSE] >>
    /\ stats = ProcessingStatsDefault
    /\ store = << >>

\* C19: a chunk is all-or-nothing with respect to the store: whenever the
\* loop is between deliveries or between chunks, the number of readings
\* persisted equals processed_messages, so no reading of a chunk counted in
\* failed_messages is in the store.
C19_StoreHoldsOnlyProcessed ==
    (handlerKind = "process_sensor_data" /\ pc \in {"polling", "for_chunk"})
        => Len(store) = stats.processed_messages

\* C20: in every reachable state, the states between two chunks of a
\* delivery included, last_processed_at is present exactly when
\* processed_messages is greater than 0.
C20_StampIffProcessed ==
    stats.last_processed_at # None <=> stats.processed_messages > 0

C20_Witness ==
    /\ pc = "for_chunk"
    /\ chunkList # << >>
    /\ stats.failed_messages > 0
    /\ stats.processed_messages > 0
    /\ stats.last_processed_at # None

\* chunks failed so far and none succeeded: still no last_processed_at
C20_FailedOnly ==
    /\ pc = "for_chunk"
    /\ chunkList # << >>
    /\ stats.failed_messages > 0
    /\ stats.processed_messages = 0
    /\ stats.last_processed_at = None

\* process_sensor_data is left in this step
HandlerLeft ==
    /\ handlerKind = "process_sensor_data"
    /\ pc \in HandlerPcs
    /\ pc' \notin HandlerPcs

\* C21: for every reading sequence and every batch_size the configuration
\* can carry, 0 included, process_sensor_data never aborts: it is left only
\* by returning Ok with every chunk attempted, and the delivery goes on to
\* its ack.
C21_HandlerAlwaysReturnsOk ==
    /\ [](pc # "panicked")
    /\ [][HandlerLeft =>
            /\ chunkList = << >>
            /\ handlerResult' = "Ok"
            /\ pc' = "ack"]_vars

====
